---- MODULE Spec2Model ----
(***************************************************************************)
(* Riding-boundary ingestion scripts of lib/db: import-boundaries.py,      *)
(* import-missing.py, import-nunavut.py and find-missing.py, run one after *)
(* the other against one PostGIS table riding_boundaries.                  *)
(*                                                                         *)
(* Python values are tagged records [t, s]: t is the Python type, s the    *)
(* text of the value (for a one-element list, the text of its element).    *)
(***************************************************************************)
EXTENDS Integers, Sequences, FiniteSets, TLC

\* ------------------------------------------------------------------ bounds
\* Longest feature collection read from the GeoJSON file.
MaxFeatures == 2
\* Number of script runs in one behaviour.
MaxRuns == 2

\* ----------------------------------------------------------- Python values
None == [t |-> "none", s |-> ""]
Str(x) == [t |-> "str", s |-> x]
\* The one-element list [x].
ListOf(x) == [t |-> "list", s |-> x]
\* The empty list [].
EmptyList == [t |-> "elist", s |-> ""]
\* The integer whose decimal text is x.
Num(x) == [t |-> "num", s |-> x]

\* bool(v), as the `or` chains of the scripts test it.
Truthy(v) ==
    CASE v.t = "str" -> v.s # ""
      [] v.t = "list" -> TRUE
      [] v.t = "num" -> v.s # "0"
      [] OTHER -> FALSE

\* a or b
PyOr(a, b) == IF Truthy(a) THEN a ELSE b

\* hash(v) raises TypeError for a list.
Hashable(v) == v.t \notin {"list", "elist"}

\* str(v), as an f-string formats v.
Format(v) ==
    CASE v.t = "str" -> v.s
      [] v.t = "num" -> v.s
      [] v.t = "none" -> "None"
      [] v.t = "elist" -> "[]"
      [] OTHER -> "['" \o v.s \o "']"

\* f'{a}|{b}'
KeyOf(a, b) == Format(a) \o "|" \o Format(b)

\* ------------------------------------------------------------- properties
PropKeys ==
    {"FEDNAME", "FEDENAME", "FEDFNAME", "ED_NAME", "EDNAME", "NAME",
     "PRUID", "PROV", "PRNAME", "PROVINCE", "FEDUID"}

\* properties.get(k): None for an absent key (and for a JSON null).
Get(props, k) == props[k]

\* The properties object holding the entries of o and nothing else.
Props(o) == [k \in PropKeys |-> IF k \in DOMAIN o THEN o[k] ELSE None]

NoProps == [k \in PropKeys |-> None]

PROVINCE_MAP ==
    [c \in {"10", "11", "12", "13", "24", "35", "46", "47", "48", "59",
            "60", "61", "62"} |->
        CASE c = "10" -> "Newfoundland and Labrador"
          [] c = "11" -> "Prince Edward Island"
          [] c = "12" -> "Nova Scotia"
          [] c = "13" -> "New Brunswick"
          [] c = "24" -> "Quebec"
          [] c = "35" -> "Ontario"
          [] c = "46" -> "Manitoba"
          [] c = "47" -> "Saskatchewan"
          [] c = "48" -> "Alberta"
          [] c = "59" -> "British Columbia"
          [] c = "60" -> "Yukon"
          [] c = "61" -> "Northwest Territories"
          [] OTHER -> "Nunavut"]

\* code is a string key of PROVINCE_MAP.
InMap(code) == code.t = "str" /\ code.s \in DOMAIN PROVINCE_MAP

\* PROVINCE_MAP.get(code, default); only evaluated for a hashable code.
MapGet(code, default) == IF InMap(code) THEN Str(PROVINCE_MAP[code.s]) ELSE default

\* An identity as a script resolves it; raised: the resolution raised.
Identity(n, p) == [raised |-> FALSE, riding_name |-> n, province |-> p]
Raised == [raised |-> TRUE, riding_name |-> None, province |-> None]

\* import-boundaries.py, import_feature: riding name and province.
BoundariesName(props) ==
    PyOr(Get(props, "FEDNAME"), PyOr(Get(props, "FEDENAME"),
    PyOr(Get(props, "FEDFNAME"), PyOr(Get(props, "ED_NAME"),
    PyOr(Get(props, "EDNAME"), PyOr(Get(props, "NAME"), Str("Unknown")))))))

BoundariesCode(props) == PyOr(Get(props, "PRUID"), PyOr(Get(props, "PROV"), Str("")))

BoundariesResolve(props) ==
    LET code == BoundariesCode(props) IN
    IF ~Hashable(code) THEN Raised
    ELSE Identity(BoundariesName(props),
                  PyOr(MapGet(code, None), PyOr(Get(props, "PRNAME"),
                  PyOr(Get(props, "PROVINCE"), Str("Unknown")))))

\* import-missing.py, import_feature: riding name and province.
MissingName(props) ==
    PyOr(Get(props, "FEDNAME"), PyOr(Get(props, "FEDENAME"),
    PyOr(Get(props, "FEDFNAME"), Str("Unknown"))))

MissingCode(props) == PyOr(Get(props, "PRUID"), Str(""))

MissingResolve(props) ==
    LET code == MissingCode(props) IN
    IF ~Hashable(code) THEN Raised
    ELSE Identity(MissingName(props), MapGet(code, Str("Unknown")))

\* find-missing.py, main, the loop that finds missing features.
FindResolve(props) ==
    LET code == PyOr(Get(props, "PRUID"), Str("")) IN
    IF ~Hashable(code) THEN Raised
    ELSE Identity(PyOr(Get(props, "FEDNAME"), PyOr(Get(props, "FEDENAME"),
                  PyOr(Get(props, "FEDFNAME"), Str("Unknown")))),
                  MapGet(code, Str("Unknown")))

\* find-missing.py, main, the key of the loop that counts duplicates.
FindDupKey(props) ==
    KeyOf(PyOr(Get(props, "FEDNAME"), PyOr(Get(props, "FEDENAME"), Str("Unknown"))),
          PyOr(Get(props, "PRUID"), Str("")))

\* --------------------------------------------------------------- geometry
\* Nested coordinate values: [t, n, items]; n is a number in tenths (so that
\* -75.5 and 1500000.2 are integers), items the elements of a list; a dict
\* holds n entries under string keys.
PyNum(n) == [t |-> "num", n |-> n, items |-> <<>>]
PyList(items) == [t |-> "list", n |-> 0, items |-> items]
PyText(n) == [t |-> "str", n |-> n, items |-> <<>>]
PyDict(n) == [t |-> "dict", n |-> n, items |-> <<>>]
PyNone == [t |-> "none", n |-> 0, items |-> <<>>]

\* bool(coords); a string PyText(n) has n characters.
CoordsTruthy(c) ==
    CASE c.t = "list" -> Len(c.items) > 0
      [] c.t = "num" -> c.n # 0
      [] c.t = "str" -> c.n > 0
      [] c.t = "dict" -> c.n > 0
      [] OTHER -> FALSE

Abs(n) == IF n < 0 THEN -n ELSE n

\* while isinstance(sample, list) and len(sample) > 0: sample = sample[0]
RECURSIVE Walk(_)
Walk(sample) ==
    IF sample.t = "list" /\ Len(sample.items) > 0 THEN Walk(sample.items[1])
    ELSE sample

\* abs(sample) > 180, on tenths.
ExceedsDegrees(n) == Abs(n) > 10 * 180

\* The sampling of import_feature: raised when an exception leaves it (len() of
\* a number, coords[0] of a dict), otherwise the value of needs_transform.
NeedsTransform(coords) ==
    IF ~CoordsTruthy(coords) THEN [raised |-> FALSE, value |-> FALSE]
    ELSE IF coords.t = "num" THEN [raised |-> TRUE, value |-> FALSE]
    ELSE IF coords.t = "dict" THEN [raised |-> TRUE, value |-> FALSE]
    ELSE IF coords.t = "str" THEN [raised |-> FALSE, value |-> FALSE]
    ELSE LET sample == Walk(coords.items[1]) IN
         [raised |-> FALSE,
          value |-> sample.t = "num" /\ ExceedsDegrees(sample.n)]

\* A geometry object: its type tag, its coordinates, and q, what PostGIS makes
\* of it:
\*   valid               ST_IsValid holds of it as read
\*   fixable             invalid as read, valid after ST_MakeValid
\*   simplifiable        invalid after ST_MakeValid, valid after ST_Simplify
\*                       and ST_MakeValid
\*   hopeless            invalid after every repair
\*   malformed           ST_GeomFromGeoJSON raises
\*   simplify_times_out  as fixable, but the statement that simplifies it is
\*                       cancelled by statement_timeout
Geometry(type, coords, q) == [t |-> "dict", type |-> type, coordinates |-> coords, q |-> q]
NullGeometry == [t |-> "none", type |-> "", coordinates |-> PyNone, q |-> "valid"]

RawValid(q) == q = "valid"
FixValid(q) == q \in {"valid", "fixable", "simplify_times_out"}
SimpValid(q) == q \in {"valid", "fixable", "simplifiable"}

\* ------------------------------------------------------------------ store
\* A row of riding_boundaries: the key columns and what is known of geom:
\*   form     raw | made_valid | simplified: the expression that computed it
\*   valid    ST_IsValid holds of it
\*   checked  the statement that wrote it tested ST_IsValid in its WHERE
\*   coerced  ST_Multi was applied
\*   multi    it is a MultiPolygon
Row(name, prov, form, valid, checked, coerced, multi) ==
    [riding_name |-> name, province |-> prov, form |-> form, valid |-> valid,
     checked |-> checked, coerced |-> coerced, multi |-> multi]

NoRow == Row("", "", "none", FALSE, FALSE, FALSE, FALSE)

\* The row each INSERT statement computes from a geometry.
StmtRow(kind, name, prov, g) ==
    CASE kind = "transform_multi" ->
           Row(name, prov, "made_valid", FixValid(g.q), TRUE, FALSE,
               g.type = "MultiPolygon")
      [] kind = "transform_poly" ->
           Row(name, prov, "made_valid", FixValid(g.q), TRUE, TRUE, TRUE)
      [] kind = "geographic" ->
           Row(name, prov, "raw", RawValid(g.q), FALSE, TRUE, TRUE)
      [] kind = "simplify" ->
           Row(name, prov, "simplified", SimpValid(g.q), FALSE, FALSE,
               g.type = "MultiPolygon")
      [] OTHER ->
           Row(name, prov, "made_valid", FixValid(g.q), FALSE, FALSE,
               g.type = "MultiPolygon")

\* The statement raises while it evaluates its expressions.
StmtRaises(kind, g) ==
    \/ g.q = "malformed"
    \/ kind = "simplify" /\ g.q = "simplify_times_out"

\* WHERE ST_IsValid(ST_MakeValid(...)), which only the reprojecting statements
\* of import_feature carry.
StmtFilter(kind, g) ==
    kind \in {"transform_multi", "transform_poly"} => FixValid(g.q)

\* A table without the uniqueness constraint.
KeyNeverTaken(rows, name, prov) == FALSE

\* The uniqueness constraint on (riding_name, province).
KeyTaken(rows, name, prov) ==
    \E r \in rows : r.riding_name = name /\ r.province = prov

\* cursor.execute of an INSERT inside the connection's transaction: a statement
\* in a failed transaction raises, a statement that raises fails the
\* transaction, ON CONFLICT DO NOTHING suppresses a duplicate key. conflict: the
\* statement met the uniqueness constraint.
Execute(txnS, pend, comm, kind, onConflict, name, prov, g) ==
    LET fail == [raised |-> TRUE, rows |-> 0, txn |-> "aborted",
                 pending |-> pend, row |-> NoRow, conflict |-> FALSE]
        none == [raised |-> FALSE, rows |-> 0, txn |-> "open",
                 pending |-> pend, row |-> NoRow, conflict |-> FALSE]
        row == StmtRow(kind, name, prov, g)
    IN  IF txnS = "aborted" THEN fail
        ELSE IF StmtRaises(kind, g) THEN fail
        ELSE IF ~StmtFilter(kind, g) THEN none
        ELSE IF KeyTaken(comm \cup pend, name, prov)
             THEN IF onConflict THEN [none EXCEPT !.conflict = TRUE]
                  ELSE [fail EXCEPT !.conflict = TRUE]
        ELSE [raised |-> FALSE, rows |-> 1, txn |-> "open",
              pending |-> pend \cup {row}, row |-> row, conflict |-> FALSE]

\* conn.commit(): COMMIT of a failed transaction rolls it back.
Commit(txnS, pend, comm) == IF txnS = "open" THEN comm \cup pend ELSE comm

\* ---------------------------------------------------------------- features
Feature(props, geometry) ==
    [properties |-> [t |-> "dict", m |-> props], geometry |-> geometry]
\* "properties": null
NullPropsFeature(geometry) ==
    [properties |-> [t |-> "none", m |-> NoProps], geometry |-> geometry]

\* The result of import_feature: crashed when an exception leaves it, else its
\* return value, with what its statement did to the connection.
Crash(txnS, pend) ==
    [crashed |-> TRUE, ret |-> FALSE, raised |-> FALSE, rows |-> 0,
     row |-> NoRow, txn |-> txnS, pending |-> pend, key |-> "",
     conflict |-> FALSE]

\* import-boundaries.py, import_feature.
BoundariesImportFeature(f, txnS, pend, comm) ==
    IF f.properties.t = "none" THEN Crash(txnS, pend)
    ELSE LET id == BoundariesResolve(f.properties.m) IN
    IF id.raised THEN Crash(txnS, pend)
    ELSE IF f.geometry.t = "none" THEN Crash(txnS, pend)
    ELSE LET nt == NeedsTransform(f.geometry.coordinates) IN
    IF nt.raised THEN Crash(txnS, pend)
    ELSE LET kind == IF nt.value
                     THEN IF f.geometry.type = "MultiPolygon"
                          THEN "transform_multi" ELSE "transform_poly"
                     ELSE "geographic"
             r == Execute(txnS, pend, comm, kind, TRUE, Format(id.riding_name),
                          Format(id.province), f.geometry)
         IN [crashed |-> FALSE, ret |-> ~r.raised, raised |-> r.raised,
             rows |-> r.rows, row |-> r.row, txn |-> r.txn,
             pending |-> r.pending, conflict |-> r.conflict,
             key |-> KeyOf(id.riding_name, id.province)]

\* import-missing.py, import_feature.
MissingImportFeature(f, txnS, pend, comm) ==
    IF f.properties.t = "none" THEN Crash(txnS, pend)
    ELSE LET id == MissingResolve(f.properties.m) IN
    IF id.raised THEN Crash(txnS, pend)
    ELSE IF f.geometry.t = "none" THEN Crash(txnS, pend)
    ELSE LET nt == NeedsTransform(f.geometry.coordinates) IN
    IF nt.raised THEN Crash(txnS, pend)
    ELSE LET kind == IF nt.value
                     THEN IF f.geometry.type = "MultiPolygon"
                          THEN "transform_multi" ELSE "transform_poly"
                     ELSE "geographic"
             r == Execute(txnS, pend, comm, kind, FALSE, Format(id.riding_name),
                          Format(id.province), f.geometry)
         IN [crashed |-> FALSE, ret |-> ~r.raised /\ r.rows = 1,
             raised |-> r.raised, rows |-> r.rows, row |-> r.row,
             txn |-> r.txn, pending |-> r.pending, conflict |-> r.conflict,
             key |-> KeyOf(id.riding_name, id.province)]

\* ------------------------------------------------------------------ inputs
\* Coordinates of a Polygon and of a MultiPolygon whose first ordinate is x
\* (in tenths).
PolygonCoords(x) == PyList(<<PyList(<<PyList(<<PyNum(x), PyNum(450)>>)>>)>>)
MultiCoords(x) == PyList(<<PolygonCoords(x)>>)

\* First ordinate 1500000.2 (metres of EPSG:3978) and -75.5 (degrees of WGS84).
ProjectedPolygon == PolygonCoords(15000002)
ProjectedMulti == MultiCoords(15000002)
GeographicPolygon == PolygonCoords(-755)

\* The features a collection is drawn from: every identity shape (name and
\* code attributes present, alternate-only, unmapped code, null properties)
\* against every store outcome (valid, repaired, filtered, raising).
FeaturePool ==
    { Feature(Props("FEDNAME" :> Str("A") @@ "PRUID" :> Str("35")
                    @@ "FEDUID" :> Str("35082")),
              Geometry("Polygon", ProjectedPolygon, "valid")),
      Feature(Props("FEDENAME" :> Str("A") @@ "PRUID" :> Str("35")
                    @@ "FEDUID" :> Str("35100")),
              Geometry("MultiPolygon", ProjectedMulti, "fixable")),
      Feature(Props("FEDFNAME" :> Str("C") @@ "PRUID" :> Str("35")
                    @@ "FEDUID" :> Str("35100")),
              Geometry("Polygon", GeographicPolygon, "fixable")),
      Feature(Props("FEDFNAME" :> Str("D") @@ "PRUID" :> Str("35")
                    @@ "FEDUID" :> Str("35082")),
              Geometry("MultiPolygon", ProjectedMulti, "hopeless")),
      Feature(Props("NAME" :> Str("B") @@ "PRUID" :> Str("99")
                    @@ "PRNAME" :> Str("Ontario") @@ "FEDUID" :> Str("62001")),
              Geometry("MultiPolygon", ProjectedMulti, "fixable")),
      Feature(Props("FEDNAME" :> Str("E") @@ "PRUID" :> Str("62")
                    @@ "FEDUID" :> Str("62001")),
              Geometry("Polygon", ProjectedPolygon, "malformed")),
      Feature(Props("FEDNAME" :> Str("G") @@ "PRUID" :> Str("62")
                    @@ "FEDUID" :> Str("62001")),
              Geometry("MultiPolygon", ProjectedMulti,
                       "simplify_times_out")),
      Feature(Props("FEDNAME" :> Str("N") @@ "PRUID" :> Str("62")
                    @@ "FEDUID" :> Str("62001")),
              Geometry("Polygon", ProjectedPolygon, "simplifiable")),
      Feature(Props("FEDNAME" :> Str("H") @@ "PRUID" :> Str("24")
                    @@ "FEDUID" :> Str("24001")),
              NullGeometry),
      NullPropsFeature(Geometry("Polygon", GeographicPolygon, "valid")) }

\* The feature collections of at most n features.
RECURSIVE Collections(_)
Collections(n) ==
    IF n = 0 THEN {<<>>}
    ELSE LET shorter == Collections(n - 1) IN
         shorter \cup {Append(c, f) : c \in shorter, f \in FeaturePool}

\* The table before the first run: empty, or holding the riding A of Ontario.
InitialStores ==
    { {}, {Row("A", "Ontario", "made_valid", TRUE, TRUE, TRUE, TRUE)} }

MISSING_FEDUIDS == {"35082", "35100", "62001"}

\* ------------------------------------------------------------------- state
VARIABLES
    features,    \* the features of the GeoJSON file
    fileState,   \* ok | missing | unparsable
    connOk,      \* psycopg2.connect succeeds
    committed,   \* the rows of riding_boundaries that are committed
    pending,     \* the rows the open transaction inserted
    txn,         \* the connection's transaction: idle | open | aborted
    script,      \* the script of the current (or last) run
    pc,          \* idle | loop
    exit,        \* how the last run ended: none | running | ok | exit1 | crash
    work,        \* the features the run iterates over
    i,           \* index in work of the next feature
    imported,    \* the run's counter imported
    errors,      \* the run's counter errors (import-missing: failed)
    log,         \* per processed feature, what import_feature did
    db_set,      \* find-missing: the keys fetched from the table
    missing,     \* find-missing: the list missing
    duplicates,  \* find-missing: the items of the dict duplicates
    runs,        \* runs started so far
    store0,      \* the committed rows when the run started
    probe,       \* identity resolution alone: the properties resolved
    resolved,    \* identity resolution alone: what each script resolves
    sampled,     \* coordinate sampling alone: the coordinates sampled
    plan,        \* coordinate sampling alone: the decision needs_transform
    last         \* the script run before this one, and how it ended

vars ==
    <<features, fileState, connOk, committed, pending, txn, script, pc, exit,
      work, i, imported, errors, log, db_set, missing, duplicates, runs,
      store0, probe, resolved, sampled, plan, last>>

Unplanned == [done |-> FALSE, raised |-> FALSE, value |-> FALSE]

NoRun == [script |-> "none", exit |-> "none"]

Unresolved ==
    [done |-> FALSE, boundaries |-> Raised, missing |-> Raised, find |-> Raised]

Init ==
    /\ fileState \in {"ok", "missing", "unparsable"}
    /\ connOk \in BOOLEAN
    /\ features \in (IF fileState = "ok" THEN Collections(MaxFeatures) ELSE {<<>>})
    /\ committed \in InitialStores
    /\ pending = {}
    /\ txn = "idle"
    /\ script = "none"
    /\ pc = "idle"
    /\ exit = "none"
    /\ work = <<>>
    /\ i = 1
    /\ imported = 0
    /\ errors = 0
    /\ log = <<>>
    /\ db_set = {}
    /\ missing = <<>>
    /\ duplicates = {}
    /\ runs = 0
    /\ store0 = committed
    /\ probe = NoProps
    /\ resolved = Unresolved
    /\ sampled = PyNone
    /\ plan = Unplanned
    /\ last = NoRun

\* A script is started: its counters and lists are fresh.
Begin(s) ==
    /\ pc = "idle"
    /\ runs < MaxRuns
    /\ runs' = runs + 1
    /\ script' = s
    /\ store0' = committed
    /\ i' = 1
    /\ imported' = 0
    /\ errors' = 0
    /\ missing' = <<>>
    /\ duplicates' = {}
    /\ last' = [script |-> script, exit |-> exit]

\* The process ends: the connection closes and what it did not commit is lost.
EndRun(how) ==
    /\ pc' = "idle"
    /\ exit' = how
    /\ pending' = {}
    /\ txn' = "idle"

LogEntry(r) ==
    [ret |-> r.ret, crashed |-> r.crashed, raised |-> r.raised, rows |-> r.rows,
     row |-> r.row, key |-> r.key, conflict |-> r.conflict]

\* ------------------------------------------------------ import-boundaries.py
\* main, up to the loop: the file is tested, the connection opened, the file
\* parsed.
\* A failed connection taken for an open one: no sys.exit in the handler.
BoundariesAbortsUnlessConnFails == fileState = "missing" \/ fileState = "unparsable"

\* main exits 1 before its loop: the file does not exist, psycopg2.connect
\* raises, or json.load raises.
BoundariesAborts == fileState = "missing" \/ ~connOk \/ fileState = "unparsable"

BoundariesStart ==
    /\ Begin("boundaries")
    /\ IF BoundariesAborts
       THEN EndRun("exit1") /\ work' = <<>>
       ELSE /\ pc' = "loop"
            /\ exit' = "running"
            /\ work' = features
            /\ UNCHANGED <<pending, txn>>
    /\ log' = <<>>
    /\ db_set' = {}
    /\ UNCHANGED <<features, fileState, connOk, committed, probe, resolved, sampled, plan>>

\* main, one iteration of the loop; an exception that leaves import_feature
\* reaches main's handler: rollback, exit 1.
BoundariesFeature ==
    /\ pc = "loop" /\ script = "boundaries" /\ i <= Len(work)
    /\ LET r == BoundariesImportFeature(work[i], txn, pending, committed) IN
       /\ log' = Append(log, LogEntry(r))
       /\ IF r.crashed
          THEN EndRun("exit1") /\ UNCHANGED <<i, imported, errors>>
          ELSE /\ pending' = r.pending
               /\ txn' = r.txn
               /\ i' = i + 1
               /\ imported' = IF r.ret THEN imported + 1 ELSE imported
               /\ errors' = IF r.ret THEN errors ELSE errors + 1
               /\ UNCHANGED <<pc, exit>>
    /\ UNCHANGED <<features, fileState, connOk, committed, script, work, db_set,
                   missing, duplicates, runs, store0, probe, resolved, sampled, plan, last>>

\* main, after the loop: commit, the summary, the count, close.
BoundariesFinish ==
    /\ pc = "loop" /\ script = "boundaries" /\ i > Len(work)
    /\ committed' = Commit(txn, pending, committed)
    /\ EndRun("ok")
    /\ UNCHANGED <<features, fileState, connOk, script, work, i, imported, errors,
                   log, db_set, missing, duplicates, runs, store0, probe, resolved, sampled, plan, last>>

\* -------------------------------------------------------- import-missing.py
\* feature.get('properties', {}).get('FEDUID', '') raises for null properties.
AnyNullProps(fs) == \E j \in 1..Len(fs) : fs[j].properties.t = "none"

\* feduid in MISSING_FEDUIDS
IsMissingFeduid(f) ==
    LET feduid == Get(f.properties.m, "FEDUID") IN
    feduid.t = "str" /\ feduid.s \in MISSING_FEDUIDS

\* main, up to the loop: the file is parsed, the features of MISSING_FEDUIDS
\* kept, the connection opened; nothing here is caught.
MissingStart ==
    /\ Begin("missing")
    /\ IF fileState # "ok" THEN EndRun("crash") /\ work' = <<>>
       ELSE IF AnyNullProps(features) THEN EndRun("crash") /\ work' = <<>>
       ELSE LET missing_features == SelectSeq(features, IsMissingFeduid) IN
            IF missing_features = <<>> THEN EndRun("ok") /\ work' = <<>>
            ELSE IF ~connOk THEN EndRun("crash") /\ work' = <<>>
            ELSE /\ pc' = "loop"
                 /\ exit' = "running"
                 /\ work' = missing_features
                 /\ UNCHANGED <<pending, txn>>
    /\ log' = <<>>
    /\ db_set' = {}
    /\ UNCHANGED <<features, fileState, connOk, committed, probe, resolved, sampled, plan>>

\* main, one iteration of the loop: commit when import_feature returns True,
\* rollback when it returns False; an exception that leaves it ends the process.
MissingFeature ==
    /\ pc = "loop" /\ script = "missing" /\ i <= Len(work)
    /\ LET r == MissingImportFeature(work[i], txn, pending, committed) IN
       /\ log' = Append(log, LogEntry(r))
       /\ IF r.crashed
          THEN EndRun("crash") /\ UNCHANGED <<i, imported, errors, committed>>
          ELSE /\ committed' = IF r.ret THEN Commit(r.txn, r.pending, committed)
                               ELSE committed
               /\ pending' = {}
               /\ txn' = "idle"
               /\ i' = i + 1
               /\ imported' = IF r.ret THEN imported + 1 ELSE imported
               /\ errors' = IF r.ret THEN errors ELSE errors + 1
               /\ UNCHANGED <<pc, exit>>
    /\ UNCHANGED <<features, fileState, connOk, script, work, db_set, missing,
                   duplicates, runs, store0, probe, resolved, sampled, plan, last>>

\* main, after the loop: the summary, the count, close.
MissingFinish ==
    /\ pc = "loop" /\ script = "missing" /\ i > Len(work)
    /\ EndRun("ok")
    /\ UNCHANGED <<features, fileState, connOk, committed, script, work, i,
                   imported, errors, log, db_set, missing, duplicates, runs,
                   store0, probe, resolved, sampled, plan, last>>

\* -------------------------------------------------------- import-nunavut.py
\* The search for FEDUID 62001: the index of the first such feature, 0 when
\* there is none, -1 when null properties are met first.
RECURSIVE FindNunavut(_, _)
FindNunavut(fs, j) ==
    IF j > Len(fs) THEN 0
    ELSE IF fs[j].properties.t = "none" THEN -1
    ELSE IF Get(fs[j].properties.m, "FEDUID") = Str("62001") THEN j
    ELSE FindNunavut(fs, j + 1)

NunavutName(props) ==
    PyOr(Get(props, "FEDNAME"), PyOr(Get(props, "FEDENAME"), Str("Nunavut")))

\* The two INSERT attempts of main: simplified first, and after an exception
\* and a rollback, without simplification. Each commits when it returns a row.
NunavutInsert(f, comm) ==
    LET name == Format(NunavutName(f.properties.m))
        r1 == Execute("open", {}, comm, "simplify", FALSE, name, "Nunavut",
                      f.geometry)
        r2 == Execute("idle", {}, comm, "plain", FALSE, name, "Nunavut",
                      f.geometry)
        r == IF r1.raised THEN r2 ELSE r1
    IN  [crashed |-> FALSE, ret |-> ~r.raised /\ r.rows = 1,
         raised |-> r1.raised, rows |-> r.rows, row |-> r.row,
         txn |-> "idle", pending |-> {}, conflict |-> r.conflict,
         key |-> KeyOf(Str(name), Str("Nunavut")),
         committed |-> IF ~r.raised /\ r.rows = 1
                       THEN Commit(r.txn, r.pending, comm) ELSE comm]

\* main, whole: one feature, so one step.
NunavutMain ==
    /\ Begin("nunavut")
    /\ LET j == IF fileState = "ok" THEN FindNunavut(features, 1) ELSE -1 IN
       IF j = -1
       THEN EndRun("crash") /\ work' = <<>> /\ log' = <<>> /\ UNCHANGED committed
       ELSE IF j = 0
       THEN EndRun("ok") /\ work' = <<>> /\ log' = <<>> /\ UNCHANGED committed
       ELSE IF features[j].geometry.t = "none" \/ ~connOk
       THEN EndRun("crash") /\ work' = <<>> /\ log' = <<>> /\ UNCHANGED committed
       ELSE LET r == NunavutInsert(features[j], committed) IN
            /\ committed' = r.committed
            /\ work' = <<features[j]>>
            /\ log' = <<LogEntry(r)>>
            /\ EndRun("ok")
    /\ db_set' = {}
    /\ UNCHANGED <<features, fileState, connOk, probe, resolved, sampled, plan>>

\* ----------------------------------------------------------- find-missing.py
\* props.get(k, default)
GetOr(props, k, default) == IF props[k] = None THEN default ELSE props[k]

\* set(f'{r[0]}|{r[1]}' for r in db_ridings)
SnapshotKeys(rows) == {KeyOf(Str(r.riding_name), Str(r.province)) : r \in rows}

\* main, up to the first loop: the file is parsed, the connection opened, the
\* keys of the table fetched once.
FindStart ==
    /\ Begin("find")
    /\ IF fileState # "ok" \/ ~connOk
       THEN EndRun("crash") /\ work' = <<>> /\ db_set' = {}
       ELSE /\ pc' = "loop"
            /\ exit' = "running"
            /\ work' = features
            /\ db_set' = SnapshotKeys(committed)
            /\ txn' = "open"
            /\ UNCHANGED pending
    /\ log' = <<>>
    /\ UNCHANGED <<features, fileState, connOk, committed, probe, resolved, sampled, plan>>

\* The test on the key inverted: the features that are stored are listed.
IsMissingInverted(key, snapshot) == key \in snapshot

\* if key not in db_set
IsMissing(key, snapshot) == key \notin snapshot

\* The entry appended to missing.
MissingEntry(props, id) ==
    [riding_name |-> id.riding_name, province |-> id.province,
     province_code |-> PyOr(Get(props, "PRUID"), Str("")),
     feduid |-> GetOr(props, "FEDUID", Str(""))]

\* One iteration of `for feature in features`: the feature's key is looked up
\* in db_set.
FindFeature ==
    /\ pc = "loop" /\ script = "find" /\ i <= Len(work)
    /\ LET f == work[i]
           id == FindResolve(f.properties.m)
       IN  IF f.properties.t = "none" \/ id.raised
           THEN EndRun("crash") /\ UNCHANGED <<i, missing>>
           ELSE /\ missing' =
                     IF IsMissing(KeyOf(id.riding_name, id.province), db_set)
                     THEN Append(missing, MissingEntry(f.properties.m, id))
                     ELSE missing
                /\ i' = i + 1
                /\ UNCHANGED <<pc, exit, pending, txn>>
    /\ UNCHANGED <<features, fileState, connOk, committed, script, work,
                   imported, errors, log, db_set, duplicates, runs, store0,
                   probe, resolved, sampled, plan, last>>

\* geojson_ridings after the first n features, as the items of the dict.
RECURSIVE CountKeys(_, _)
CountKeys(fs, n) ==
    IF n = 0 THEN {}
    ELSE LET prev == CountKeys(fs, n - 1)
             key == FindDupKey(fs[n].properties.m)
             old == IF \E e \in prev : e.key = key
                    THEN (CHOOSE e \in prev : e.key = key).count ELSE 0
         IN  {e \in prev : e.key # key} \cup {[key |-> key, count |-> old + 1]}

\* {k: v for k, v in geojson_ridings.items() if v > 1}
Duplicates(fs) == {e \in CountKeys(fs, Len(fs)) : e.count > 1}

\* main, after the first loop: the similar-name queries (which read only), the
\* count of duplicate keys, close.
FindFinish ==
    /\ pc = "loop" /\ script = "find" /\ i > Len(work)
    /\ duplicates' = Duplicates(work)
    /\ EndRun("ok")
    /\ UNCHANGED <<features, fileState, connOk, committed, script, work, i,
                   imported, errors, log, db_set, missing, runs, store0, probe,
                   resolved, sampled, plan, last>>

\* ------------------------------------------------------------ specification
Next ==
    \/ BoundariesStart
    \/ BoundariesFeature
    \/ BoundariesFinish
    \/ MissingStart
    \/ MissingFeature
    \/ MissingFinish
    \/ NunavutMain
    \/ FindStart
    \/ FindFeature
    \/ FindFinish

Spec == Init /\ [][Next]_vars

\* ------------------------------------------------- identity resolution alone
\* The attribute mappings resolved: each name and code attribute absent, empty,
\* a string, a number or an array.
ProbeSet ==
    { Props("FEDNAME" :> a @@ "FEDENAME" :> b @@ "FEDFNAME" :> c @@ "NAME" :> d
            @@ "PRUID" :> e @@ "PROV" :> f @@ "PRNAME" :> g @@ "PROVINCE" :> h) :
        a \in {None, Str(""), Str("Test Riding"), ListOf("Test Riding"), EmptyList},
        b \in {None, Str("East")},
        c \in {None, Str("Est")},
        d \in {None, Str("North")},
        e \in {None, Str(""), Str("35"), Str("99"), ListOf("35"), Num("35")},
        f \in {None, Str("48")},
        g \in {None, Str("Ontario")},
        h \in {None, Str("Quebec")} }

InitResolve ==
    /\ probe \in ProbeSet
    /\ resolved = Unresolved
    /\ features = <<>>
    /\ fileState = "ok"
    /\ connOk = TRUE
    /\ committed = {}
    /\ pending = {}
    /\ txn = "idle"
    /\ script = "none"
    /\ pc = "idle"
    /\ exit = "none"
    /\ work = <<>>
    /\ i = 1
    /\ imported = 0
    /\ errors = 0
    /\ log = <<>>
    /\ db_set = {}
    /\ missing = <<>>
    /\ duplicates = {}
    /\ runs = 0
    /\ store0 = {}
    /\ sampled = PyNone
    /\ plan = Unplanned
    /\ last = NoRun

\* The properties are resolved as import-boundaries, import-missing and
\* find-missing resolve them.
ResolveProbe ==
    /\ ~resolved.done
    /\ resolved' = [done |-> TRUE, boundaries |-> BoundariesResolve(probe),
                    missing |-> MissingResolve(probe), find |-> FindResolve(probe)]
    /\ UNCHANGED <<features, fileState, connOk, committed, pending, txn, script,
                   pc, exit, work, i, imported, errors, log, db_set, missing,
                   duplicates, runs, store0, probe, sampled, plan, last>>

SpecResolve == InitResolve /\ [][ResolveProbe]_vars

\* ------------------------------------------------- coordinate sampling alone
\* Deepest nesting of the coordinates sampled.
MaxDepth == 3

\* What a coordinates member can hold in place of a list of positions: numbers
\* (in tenths) on both sides of 180, an empty list, strings, dicts, null.
CoordLeaves ==
    { PyNum(0), PyNum(-755), PyNum(1800), PyNum(-1800), PyNum(1801),
      PyNum(-1801), PyNum(15000002), PyList(<<>>), PyText(0), PyText(3),
      PyDict(0), PyDict(1), PyNone }

\* The coordinate values nested at most d deep: a leaf, or a list whose first
\* element is such a value, alone or followed by another ordinate.
RECURSIVE CoordValues(_)
CoordValues(d) ==
    IF d = 0 THEN CoordLeaves
    ELSE LET inner == CoordValues(d - 1) IN
         CoordLeaves \cup {PyList(<<c>>) : c \in inner}
                     \cup {PyList(<<c, PyNum(5000)>>) : c \in inner}

InitTransform ==
    /\ sampled \in CoordValues(MaxDepth)
    /\ plan = Unplanned
    /\ last = NoRun
    /\ probe = NoProps
    /\ resolved = Unresolved
    /\ features = <<>>
    /\ fileState = "ok"
    /\ connOk = TRUE
    /\ committed = {}
    /\ pending = {}
    /\ txn = "idle"
    /\ script = "none"
    /\ pc = "idle"
    /\ exit = "none"
    /\ work = <<>>
    /\ i = 1
    /\ imported = 0
    /\ errors = 0
    /\ log = <<>>
    /\ db_set = {}
    /\ missing = <<>>
    /\ duplicates = {}
    /\ runs = 0
    /\ store0 = committed

\* The coordinates are sampled as import_feature samples them.
PlanTransform ==
    /\ ~plan.done
    /\ plan' = LET nt == NeedsTransform(sampled) IN
               [done |-> TRUE, raised |-> nt.raised, value |-> nt.value]
    /\ UNCHANGED <<features, fileState, connOk, committed, pending, txn, script,
                   pc, exit, work, i, imported, errors, log, db_set, missing,
                   duplicates, runs, store0, probe, resolved, sampled, last>>

SpecTransform == InitTransform /\ [][PlanTransform]_vars

\* ------------------------------------------------------ checked properties
\* A run of one of the two scripts that import a collection feature by feature.
ImportRun == script \in {"boundaries", "missing"}
\* The run has ended.
RunEnded == pc = "idle" /\ exit \in {"ok", "exit1", "crash"}
\* Feature n of the run failed: its statement raised or import_feature
\* returned False.
Failed(n) == ~log[n].crashed /\ ~log[n].ret
\* Feature n of the run failed for any reason, an escaping exception included.
FailedAnyhow(n) == log[n].crashed \/ ~log[n].ret

\* C1: when a run of import-boundaries or import-missing has ended and its
\* feature n failed, every earlier feature whose INSERT added a row still has
\* that row in the committed table.
C1_FailureKeepsEarlierFeatures ==
    (ImportRun /\ RunEnded) =>
        \A n \in 1..Len(log) :
            Failed(n) =>
                \A m \in 1..(n - 1) :
                    log[m].rows = 1 => log[m].row \in committed

\* C2: every row of the table, committed or written by the open transaction,
\* holds a geometry that is valid and whose validity the writing statement
\* tested.
C2_OnlyValidatedGeometryStored ==
    \A r \in committed \cup pending : r.valid /\ r.checked

\* C3: when an import run has ended and a feature n failed, the run ended with
\* its summary, every feature was attempted, and every feature after n whose
\* geometry is valid has its key in the committed table.
C3_FailureIsIsolated ==
    (ImportRun /\ RunEnded /\ \E n \in 1..Len(log) : FailedAnyhow(n)) =>
        /\ exit = "ok"
        /\ Len(log) = Len(work)
        /\ \A n \in 1..Len(log) : \A m \in (n + 1)..Len(log) :
              ( /\ FailedAnyhow(n)
                /\ work[m].properties.t = "dict"
                /\ work[m].geometry.t = "dict"
                /\ work[m].geometry.q = "valid" )
              => log[m].key \in SnapshotKeys(committed)

\* C4: a feature whose geometry is valid after the validity-fix alone is never
\* written in its simplified form.
C4_NoSimplificationWhenFixSuffices ==
    \A n \in 1..Len(log) :
        ( /\ log[n].rows = 1
          /\ work[n].geometry.t = "dict"
          /\ FixValid(work[n].geometry.q) )
        => log[n].row.form # "simplified"

\* C5: an INSERT that meets the uniqueness constraint does not raise and adds
\* no row, and the run counts that feature neither as imported nor as
\* failed: the two counters add up to the features that met no conflict.
C5_DuplicateIsNotImportedNorFailed ==
    ImportRun =>
        /\ \A n \in 1..Len(log) :
              log[n].conflict => ~log[n].raised /\ log[n].rows = 0
        /\ imported + errors =
              Cardinality({n \in 1..Len(log) :
                              ~log[n].crashed /\ ~log[n].conflict})

\* C6: for every attribute mapping that import-boundaries resolves, find-missing
\* resolves it too and forms the key riding_name|province of the row that
\* import-boundaries writes.
C6_ReconciliationKeyIsImporterKey ==
    (resolved.done /\ ~resolved.boundaries.raised) =>
        /\ ~resolved.find.raised
        /\ KeyOf(resolved.find.riding_name, resolved.find.province)
             = KeyOf(resolved.boundaries.riding_name, resolved.boundaries.province)

\* The key find-missing checks against the table for a feature.
IdentityKey(f) ==
    LET id == FindResolve(f.properties.m) IN KeyOf(id.riding_name, id.province)

\* The keys to which more than one feature of fs resolves, with their counts.
SourceDuplicates(fs) ==
    { [key |-> IdentityKey(fs[j]),
       count |-> Cardinality({k \in 1..Len(fs) :
                                 IdentityKey(fs[k]) = IdentityKey(fs[j])})] :
        j \in {k \in 1..Len(fs) :
                 \E l \in 1..Len(fs) :
                    l # k /\ IdentityKey(fs[l]) = IdentityKey(fs[k])} }

\* C7: when find-missing has ended, the duplicates it reports are the keys of
\* the missing check to which more than one feature resolves, each with the
\* number of features resolving to it.
C7_DuplicatesCountIdentityKeys ==
    (script = "find" /\ pc = "idle" /\ exit = "ok") =>
        duplicates = SourceDuplicates(work)

\* Some row of rows has the key riding_name|province that find-missing forms
\* for f.
Stored(f, rows) ==
    LET id == FindResolve(f.properties.m) IN
    \E r \in rows :
        r.riding_name \o "|" \o r.province
          = Format(id.riding_name) \o "|" \o Format(id.province)

\* The features among the first n of fs that rows does not hold, in order.
RECURSIVE NotStored(_, _, _)
NotStored(fs, n, rows) ==
    IF n = 0 THEN <<>>
    ELSE IF Stored(fs[n], rows) THEN NotStored(fs, n - 1, rows)
    ELSE Append(NotStored(fs, n - 1, rows), fs[n])

\* C8: while find-missing runs and when it has ended, db_set is the set of keys
\* of the table as it was when the run started, and missing lists, in source
\* order and once each, the features read so far whose key is not a key of
\* that table.
C8_MissingIsComplementOfSnapshot ==
    (script = "find" /\ exit \in {"running", "ok"}) =>
        LET expected == NotStored(work, i - 1, store0) IN
        /\ db_set = {r.riding_name \o "|" \o r.province : r \in store0}
        /\ Len(missing) = Len(expected)
        /\ \A n \in 1..Len(expected) :
              LET id == FindResolve(expected[n].properties.m) IN
              /\ missing[n].riding_name = id.riding_name
              /\ missing[n].province = id.province
              /\ missing[n].feduid
                   = GetOr(expected[n].properties.m, "FEDUID", Str(""))

\* C8, witness: find-missing has ended over a collection of which it lists
\* some features as missing and not the others.
C8_Witness ==
    /\ script = "find" /\ pc = "idle" /\ exit = "ok"
    /\ Len(missing) >= 1
    /\ Len(missing) < Len(work)

\* C9: resolution raises in no script, and the riding name it returns is a
\* non-empty value.
C9_ResolutionIsTotal ==
    resolved.done =>
        /\ ~resolved.boundaries.raised /\ Truthy(resolved.boundaries.riding_name)
        /\ ~resolved.missing.raised /\ Truthy(resolved.missing.riding_name)
        /\ ~resolved.find.raised /\ Truthy(resolved.find.riding_name)

\* The province the table and the alternate name attributes give for a code.
TableThenAlternates(code, props) ==
    IF InMap(code) THEN Str(PROVINCE_MAP[code.s])
    ELSE IF Truthy(Get(props, "PRNAME")) THEN Get(props, "PRNAME")
    ELSE IF Truthy(Get(props, "PROVINCE")) THEN Get(props, "PROVINCE")
    ELSE Str("Unknown")

\* C10: in every script that resolves an identity without raising, the
\* province is the table's name for the code when the table holds the code,
\* else the first non-empty of PRNAME and PROVINCE, else "Unknown".
C10_ProvinceFallsBackToAlternates ==
    resolved.done =>
        /\ ~resolved.boundaries.raised =>
              resolved.boundaries.province
                = TableThenAlternates(BoundariesCode(probe), probe)
        /\ ~resolved.missing.raised =>
              resolved.missing.province
                = TableThenAlternates(MissingCode(probe), probe)
        /\ ~resolved.find.raised =>
              resolved.find.province
                = TableThenAlternates(MissingCode(probe), probe)

\* The first scalar of c: index 0 is taken for as long as there is one.
RECURSIVE FirstScalar(_)
FirstScalar(c) ==
    IF c.t = "list" /\ c.items # <<>> THEN FirstScalar(c.items[1]) ELSE c

\* C11: sampling raises for no coordinates value, and needs_transform is true
\* exactly when the first scalar is a number whose absolute value exceeds 180.
C11_TransformDecisionFailsOpen ==
    plan.done =>
        /\ ~plan.raised
        /\ plan.value <=> ( /\ FirstScalar(sampled).t = "num"
                            /\ \/ FirstScalar(sampled).n > 1800
                               \/ FirstScalar(sampled).n < -1800 )

\* Feature n of the run was written by a statement that reprojects.
Reprojected(n) == log[n].rows = 1 /\ log[n].row.form \in {"made_valid", "simplified"}

\* C12: every row written by a reprojecting statement is a MultiPolygon, and
\* ST_Multi was applied to it exactly when the feature's type is Polygon.
C12_ReprojectedIsMultiOnce ==
    \A n \in 1..Len(log) :
        Reprojected(n) =>
            /\ log[n].row.multi
            /\ log[n].row.coerced <=> work[n].geometry.type = "Polygon"

\* The file cannot be read as a feature collection, or the table cannot be
\* reached.
BatchError == fileState # "ok" \/ ~connOk

\* C13: a run of import-boundaries or import-missing under a batch-level error
\* is over as soon as it has started, with no feature handed to
\* import_feature and the committed table as it was when the run started; it
\* ends in error, unless import-missing returned before it connects because
\* the file holds none of MISSING_FEDUIDS.
C13_BatchErrorsAbortBeforeProcessing ==
    (ImportRun /\ BatchError) =>
        /\ pc = "idle"
        /\ log = <<>>
        /\ imported = 0 /\ errors = 0
        /\ committed = store0
        /\ pending = {}
        /\ \/ exit \in {"exit1", "crash"}
           \/ /\ script = "missing" /\ exit = "ok" /\ fileState = "ok"
              /\ SelectSeq(features, IsMissingFeduid) = <<>>

\* C13, witness: import-boundaries has exited 1 on a failed connection, with a
\* collection to import and rows in the table.
C13_Witness ==
    /\ script = "boundaries" /\ pc = "idle" /\ exit = "exit1"
    /\ ~connOk
    /\ features # <<>>
    /\ committed # {}

\* C14: when a run of import-boundaries or import-missing has printed its
\* summary, the imported count is the number of rows the run added to the
\* committed table, and imported plus errors is the number of features handed
\* to import_feature.
C14_ImportedCountsAddedRows ==
    (ImportRun /\ RunEnded /\ exit = "ok") =>
        /\ imported = Cardinality(committed) - Cardinality(store0)
        /\ imported + errors = Len(log)

\* The rows a statement of the current transaction sees.
Visible == committed \cup pending

\* C15: when a run of import-boundaries that follows a run of
\* import-boundaries on the same collection has ended, the committed table is
\* what that first run left; and in every state no two rows of the table
\* share riding_name and province.
C15_RerunIsIdempotent ==
    /\ (script = "boundaries" /\ RunEnded /\ last.script = "boundaries") =>
           committed = store0
    /\ \A r1, r2 \in Visible :
           (r1.riding_name = r2.riding_name /\ r1.province = r2.province) => r1 = r2

\* C15, witness: the second run of import-boundaries has printed its summary,
\* after a first run that added a row, and each of its two features met the
\* uniqueness constraint.
C15_Witness ==
    /\ script = "boundaries" /\ RunEnded /\ exit = "ok"
    /\ last = [script |-> "boundaries", exit |-> "ok"]
    /\ Cardinality(committed) >= 2
    /\ Len(log) = 2
    /\ \A n \in 1..Len(log) : log[n].conflict /\ log[n].rows = 0

====
